---- MODULE Spec2Model ----
(***************************************************************************)
(* Leave tracker (src/app.py): a Flask application over two tables,        *)
(* employees(id, name UNIQUE, color) and leaves(id, name, date, note,      *)
(* half_day), with a shared-password session gate.                         *)
(*                                                                         *)
(* A string is the sequence of the Unicode code points of its characters,  *)
(* so that strip(), split(), strptime() and isoformat() are computed       *)
(* rather than assumed.  A missing form field (None) is the empty set, a   *)
(* present one {s}.                                                        *)
(***************************************************************************)
EXTENDS Integers, Sequences, FiniteSets, TLC

\* ------------------------------------------------------------------------
\* Strings
\* ------------------------------------------------------------------------

\* str.isspace(): the characters str.strip() and str.split() take for
\* whitespace (tab..CR, FS..US, space, NEL, NBSP, the Unicode spaces)
Whitespace ==
    (9..13) \cup (28..32) \cup {133, 160, 5760} \cup (8192..8202)
        \cup {8232, 8233, 8239, 8287, 12288}

\* the zero of every run of decimal digits (category Nd of Unicode 14.0, the
\* database of Python 3.11): ASCII, Arabic-Indic, ..., fullwidth, ...
DigitZeros ==
    {48, 1632, 1776, 1984, 2406, 2534, 2662, 2790, 2918, 3046, 3174, 3302,
     3430, 3558, 3664, 3792, 3872, 4160, 4240, 6112, 6160, 6470, 6608, 6784,
     6800, 6992, 7088, 7232, 7248, 42528, 43216, 43264, 43472, 43504, 43600,
     44016, 65296, 66720, 68912, 69734, 69872, 69942, 70096, 70384, 70736,
     70864, 71248, 71360, 71472, 71904, 72016, 72784, 73040, 73120, 92768,
     92864, 93008, 120782, 120792, 120802, 120812, 120822, 123200, 123632,
     125264, 130032}

\* the regular expression \d on str: any decimal digit
IsDigit(c) == \E z \in DigitZeros : c \in z..(z + 9)

\* int() of one decimal digit
DigitVal(c) == c - (CHOOSE z \in DigitZeros : c \in z..(z + 9))

AllDigits(s) == \A i \in 1..Len(s) : IsDigit(s[i])

\* int(s) of decimal digits s
RECURSIVE ToInt(_)
ToInt(s) == IF s = <<>> THEN 0
            ELSE 10 * ToInt(SubSeq(s, 1, Len(s) - 1)) + DigitVal(s[Len(s)])

SetMin(S) == CHOOSE x \in S : \A y \in S : x <= y

SetMax(S) == CHOOSE x \in S : \A y \in S : y <= x

\* s.strip()
Strip(s) ==
    LET idx == {i \in 1..Len(s) : s[i] \notin Whitespace}
    IN  IF idx = {} THEN <<>> ELSE SubSeq(s, SetMin(idx), SetMax(idx))

\* int(s) of a str: {} where it raises ValueError.  Whitespace around is
\* dropped (FS, GS, RS, US are none to int()), a sign may lead, one
\* underscore may stand between two digits.
ParseInt(s) ==
    LET idx  == {i \in 1..Len(s) : s[i] \notin Whitespace \ (28..31)}
        t    == IF idx = {} THEN <<>> ELSE SubSeq(s, SetMin(idx), SetMax(idx))
        body == IF t # <<>> /\ t[1] \in {43, 45} THEN Tail(t) ELSE t
        ok   == /\ body # <<>>
                /\ \A i \in 1..Len(body) :
                      \/ IsDigit(body[i])
                      \/ /\ body[i] = 95
                         /\ 1 < i /\ i < Len(body)
                         /\ IsDigit(body[i - 1]) /\ IsDigit(body[i + 1])
        n    == ToInt(SelectSeq(body, IsDigit))
    IN  IF ~ok THEN {} ELSE IF t[1] = 45 THEN {0 - n} ELSE {n}

\* s.split(): the whitespace-separated tokens of s, in order
RECURSIVE Split(_)
Split(s) ==
    LET idx == {i \in 1..Len(s) : s[i] \notin Whitespace}
    IN  IF idx = {} THEN <<>>
        ELSE LET a    == SetMin(idx)
                 ends == {j \in a..Len(s) : j = Len(s) \/ s[j + 1] \in Whitespace}
                 b    == SetMin(ends)
             IN  <<SubSeq(s, a, b)>> \o Split(SubSeq(s, b + 1, Len(s)))

\* form.get(key): None is {}, a value s is {s}
None == {}

Some(s) == {s}

Value(opt) == CHOOSE s \in opt : TRUE

\* Python truthiness of an optional string: None and "" are falsy
Truthy(opt) == opt # None /\ Value(opt) # <<>>

\* ------------------------------------------------------------------------
\* datetime.date
\* ------------------------------------------------------------------------

Date(y, m, d) == [year |-> y, month |-> m, day |-> d]

IsLeap(y) == y % 4 = 0 /\ (y % 100 # 0 \/ y % 400 = 0)

DaysInMonth(y, m) ==
    IF m = 2 THEN (IF IsLeap(y) THEN 29 ELSE 28)
    ELSE IF m \in {4, 6, 9, 11} THEN 30 ELSE 31

DaysBeforeYear(y) ==
    LET p == y - 1 IN p * 365 + (p \div 4) - (p \div 100) + (p \div 400)

DaysBeforeMonth(y, m) ==
    <<0, 31, 59, 90, 120, 151, 181, 212, 243, 273, 304, 334>>[m]
        + (IF m > 2 /\ IsLeap(y) THEN 1 ELSE 0)

\* date(y, m, d) raises ValueError outside MINYEAR..MAXYEAR, 1..12, 1..dim
ValidDate(y, m, d) ==
    /\ y \in 1..9999
    /\ m \in 1..12
    /\ d \in 1..DaysInMonth(y, m)

ToOrdinal(dt) ==
    DaysBeforeYear(dt.year) + DaysBeforeMonth(dt.year, dt.month) + dt.day

FromOrdinal(n) ==
    LET y == CHOOSE yy \in (n \div 366)..((n \div 365) + 1) :
                 DaysBeforeYear(yy) < n /\ n <= DaysBeforeYear(yy + 1)
        r == n - DaysBeforeYear(y)
        m == CHOOSE mm \in 1..12 :
                 /\ DaysBeforeMonth(y, mm) < r
                 /\ r <= DaysBeforeMonth(y, mm) + DaysInMonth(y, mm)
    IN  Date(y, m, r - DaysBeforeMonth(y, m))

\* date.weekday(): Monday is 0
Weekday(dt) == (ToOrdinal(dt) + 6) % 7

\* zero-padded decimal of width w
RECURSIVE Pad(_, _)
Pad(n, w) == IF w = 0 THEN <<>>
             ELSE Append(Pad(n \div 10, w - 1), 48 + (n % 10))

\* date.isoformat(): YYYY-MM-DD
IsoFormat(dt) ==
    Pad(dt.year, 4) \o <<45>> \o Pad(dt.month, 2) \o <<45>> \o Pad(dt.day, 2)

\* strptime's %m: 1[0-2]|0[1-9]|[1-9]
MonthField(s) ==
    \/ Len(s) = 2 /\ s[1] = 49 /\ s[2] \in 48..50
    \/ Len(s) = 2 /\ s[1] = 48 /\ s[2] \in 49..57
    \/ Len(s) = 1 /\ s[1] \in 49..57

\* strptime's %d: 3[0-1]|[1-2]\d|0[1-9]|[1-9]| [1-9]
DayField(s) ==
    \/ Len(s) = 2 /\ s[1] = 51 /\ s[2] \in 48..49
    \/ Len(s) = 2 /\ s[1] \in 49..50 /\ IsDigit(s[2])
    \/ Len(s) = 2 /\ s[1] = 48 /\ s[2] \in 49..57
    \/ Len(s) = 1 /\ s[1] \in 49..57
    \/ Len(s) = 2 /\ s[1] = 32 /\ s[2] \in 49..57

\* datetime.strptime(s, "%Y-%m-%d").date(): {} when it raises ValueError.
\* %Y is \d\d\d\d, then "-", %m, "-", %d and nothing more; int() of the
\* three fields (int(" 9") is 9); then date(y, m, d) must exist.
StrpDate(s) ==
    IF ~(Len(s) >= 8 /\ AllDigits(SubSeq(s, 1, 4)) /\ s[5] = 45) THEN {}
    ELSE
      LET rest   == SubSeq(s, 6, Len(s))
          dashes == {i \in 1..Len(rest) : rest[i] = 45}
      IN  IF Cardinality(dashes) # 1 THEN {}
          ELSE
            LET k  == SetMin(dashes)
                ms == SubSeq(rest, 1, k - 1)
                ds == SubSeq(rest, k + 1, Len(rest))
            IN  IF MonthField(ms) /\ DayField(ds)
                THEN LET y == ToInt(SubSeq(s, 1, 4))
                         m == ToInt(ms)
                         d == ToInt(IF ds[1] = 32 THEN Tail(ds) ELSE ds)
                     IN  IF ValidDate(y, m, d) THEN {Date(y, m, d)} ELSE {}
                ELSE {}

\* ------------------------------------------------------------------------
\* calendar.Calendar(firstweekday=0).monthdayscalendar and build_calendar
\* ------------------------------------------------------------------------

\* faulty variant: Calendar(firstweekday=6), weeks that start on Sunday
IterMonthDaysSundayFirst(year, month) ==
    LET day1   == (ToOrdinal(Date(year, month, 1)) + 6) % 7
        ndays  == IF month = 2 THEN (IF IsLeap(year) THEN 29 ELSE 28)
                  ELSE IF month \in {4, 6, 9, 11} THEN 30 ELSE 31
        before == (day1 - 6) % 7
        after  == (6 - day1 - ndays) % 7
    IN  [i \in 1..before |-> 0] \o [i \in 1..ndays |-> i] \o [i \in 1..after |-> 0]

\* Calendar.itermonthdays: leading zeros up to the weekday of the 1st, the
\* days 1..ndays, trailing zeros up to a whole week
IterMonthDays(year, month) ==
    LET day1   == Weekday(Date(year, month, 1))
        ndays  == DaysInMonth(year, month)
        before == (day1 - 0) % 7
        after  == (0 - day1 - ndays) % 7
    IN  [i \in 1..before |-> 0] \o [i \in 1..ndays |-> i] \o [i \in 1..after |-> 0]

MonthDaysCalendar(year, month) ==
    LET days == IterMonthDays(year, month)
    IN  [w \in 1..(Len(days) \div 7) |-> SubSeq(days, 7 * (w - 1) + 1, 7 * w)]

\* " (Half)"
HalfSuffix == <<32, 40, 72, 97, 108, 102, 41>>

\* lv.name + (" (Half)" if lv.half_day else "")
Label(lv) == lv.name \o (IF lv.half_day THEN HalfSuffix ELSE <<>>)

\* faulty variant: insert(0, label) instead of append(label)
RECURSIVE LeaveMapNewestFirst(_, _)
LeaveMapNewestFirst(lvs, map) ==
    IF lvs = <<>> THEN map
    ELSE LET lv  == Head(lvs)
             iso == IsoFormat(lv.date)
             cur == IF iso \in DOMAIN map THEN map[iso] ELSE <<>>
         IN  LeaveMapNewestFirst(Tail(lvs),
                      [k \in DOMAIN map \cup {iso} |->
                          IF k = iso THEN <<Label(lv)>> \o cur ELSE map[k]])

\* leave_map.setdefault(iso, []).append(label), record by record
RECURSIVE LeaveMap(_, _)
LeaveMap(lvs, map) ==
    IF lvs = <<>> THEN map
    ELSE LET lv  == Head(lvs)
             iso == IsoFormat(lv.date)
             cur == IF iso \in DOMAIN map THEN map[iso] ELSE <<>>
         IN  LeaveMap(Tail(lvs),
                      [k \in DOMAIN map \cup {iso} |->
                          IF k = iso THEN Append(cur, Label(lv)) ELSE map[k]])

\* build_calendar raises for a month outside 1..12 (calendar.IllegalMonthError)
\* and for a year outside 1..9999 (date(year, month, day): ValueError)
BuildCalendarRaises(year, month) ==
    month \notin 1..12 \/ year \notin 1..9999

\* build_calendar(year, month, lvs): list of weeks of {day, names}
BuildCalendar(year, month, lvs) ==
    LET month_days == MonthDaysCalendar(year, month)
        leave_map  == LeaveMap(lvs, [k \in {} |-> <<>>])
        Cell(day)  ==
            IF day = 0 THEN [day |-> 0, names |-> <<>>]
            ELSE LET iso == IsoFormat(Date(year, month, day))
                 IN  [day   |-> day,
                      names |-> IF iso \in DOMAIN leave_map
                                THEN leave_map[iso] ELSE <<>>]
    IN  [w \in 1..Len(month_days) |->
            [c \in 1..7 |-> Cell(month_days[w][c])]]

\* ------------------------------------------------------------------------
\* State
\* ------------------------------------------------------------------------

VARIABLES
    backend,    \* the DATABASE_URL scheme the processes were started with
    files,      \* employees.json and leaves.json as json.load gives them
    authed,     \* session["authed"] of the session cookie each client holds
    leaves,     \* committed rows of table leaves
    employees,  \* committed rows of table employees
    leaveSeq,   \* postgresql: last value of the leaves id sequence
    empSeq,     \* postgresql: last value of the employees id sequence
    tx,         \* each worker's request, position and db.session
    dbLock,     \* sqlite: the worker holding the database write lock
    started,    \* how many requests and restarts there have been
    cal         \* a call of build_calendar: its arguments and result

vars == <<backend, files, authed, leaves, employees, leaveSeq, empSeq,
          tx, dbLock, started, cal>>

storeVars == <<leaves, employees, leaveSeq, empSeq>>

envVars == <<backend, files, cal>>

PASSWORD == "1234"

Clients == {"c1", "c2"}

Backends == {"sqlite", "postgresql"}

\* the threads or processes of the WSGI server
Workers == {1, 2}

\* generate_color(): r, g, b each in 120..230; two of the 111^3 colours
Colors == {<<120, 120, 120>>, <<230, 230, 230>>}

\* one of them, where every form is sent
OneColor == {<<120, 120, 120>>}

\* the colour returned for a falsy name
DefaultColor == <<200, 200, 200>>

NoRequest == [op |-> "none"]

RedirectTo(loc) == [status |-> 302, body |-> loc]

Page(name) == [status |-> 200, body |-> name]

ServerError == [status |-> 500, body |-> "error"]

\* no response yet
NoResponse == [status |-> 0, body |-> "none"]

\* ------------------------------------------------------------------------
\* Store
\* ------------------------------------------------------------------------

MaxOf(S) == IF S = {} THEN 0 ELSE SetMax(S)

\* the id an INSERT gets: sqlite's rowid is max(rowid) + 1, postgresql's
\* serial column takes the next value of its sequence
NextId(rows, seq) ==
    IF backend = "sqlite" THEN MaxOf({r.id : r \in rows}) + 1 ELSE seq + 1

Leave(id, name, date, note, half_day) ==
    [id |-> id, name |-> name, date |-> date, note |-> note, half_day |-> half_day]

EmployeeColor(id, name, color) == [id |-> id, name |-> name, color |-> color]

\* EmployeeColor.query.filter_by(name=name).first()
EmployeeByName(emps, name) == {e \in emps : e.name = name}

\* Leave.query.order_by(Leave.date).all(); rows of one date in id order
RECURSIVE OrderByDate(_)
OrderByDate(rows) ==
    IF rows = {} THEN <<>>
    ELSE LET first == CHOOSE r \in rows : \A q \in rows :
                          \/ ToOrdinal(r.date) < ToOrdinal(q.date)
                          \/ (r.date = q.date /\ r.id <= q.id)
         IN  <<first>> \o OrderByDate(rows \ {first})

\* a postgresql sequence advances with every INSERT; sqlite keeps none
BumpSeq(seq, n) == IF backend = "postgresql" THEN seq + n ELSE seq

\* ------------------------------------------------------------------------
\* Requests
\* ------------------------------------------------------------------------


\* "A C"
NameAC == <<65, 32, 67>>

\* "B"
NameB == <<66>>

\* "yes"
Yes == <<121, 101, 115>>

\* "2024-02-29"
Feb29 == <<50, 48, 50, 52, 45, 48, 50, 45, 50, 57>>

\* 2024-03-01 with the year in Arabic-Indic digits, a one-digit month and a
\* space for the day's first digit
Mar01 == <<1634, 1632, 1634, 1636, 45, 51, 45, 32, 49>>

\* "2023-02-29"; 2023 is no leap year: strptime raises ValueError
Feb29NoLeap == <<50, 48, 50, 51, 45, 48, 50, 45, 50, 57>>

\* <select name="name">: absent, "Select one" (""), or an employee
NameInputs == {None, Some(<<>>), Some(NameAC)}

\* <input name="new_name">
\* absent, a no-break space, "B" between a carriage return and a space
NewNameInputs == {None, Some(<<160>>), Some(<<13>> \o NameB \o <<32>>)}

\* from_date, to_date: absent, a date, the next day, a non-date
DateInputs == {None, Some(Feb29), Some(Mar01), Some(Feb29NoLeap)}

HalfDayInputs == {None, Some(Yes)}

\* absent or "n"
NoteInputs == {None, Some(<<110>>)}

\* the add forms: every way to name the employee; every from_date and every
\* to_date beside a date; one day and two days with and without the
\* half-day flag; every note
Forms ==
    [name : NameInputs, new_name : NewNameInputs, from_date : {Some(Feb29)},
     to_date : {Some(Feb29)}, half_day : {None}, note : {None}]
    \cup [name : {Some(NameAC)}, new_name : {None}, from_date : DateInputs,
          to_date : {Some(Feb29)}, half_day : {None}, note : {None}]
    \cup [name : {Some(NameAC)}, new_name : {None}, from_date : {Some(Feb29)},
          to_date : DateInputs, half_day : {None}, note : {None}]
    \cup [name : {Some(NameAC)}, new_name : {None},
          from_date : {Some(Feb29)},
          to_date : {Some(Feb29), Some(Mar01)}, half_day : HalfDayInputs,
          note : {None}]
    \cup [name : {Some(NameAC)}, new_name : {None}, from_date : {Some(Feb29)},
          to_date : {Some(Feb29)}, half_day : {None}, note : NoteInputs]

\* the forms two clients send: a one-day leave for no employee, for an
\* employee, and for an employee whose name is a single space
FewForms ==
    [name : {None, Some(NameAC), Some(<<32>>)}, new_name : {None},
     from_date : {Some(Feb29)},
     to_date : {Some(Feb29)}, half_day : {None}, note : {None}]

PasswordInputs == {None, Some("1234"), Some("0000")}

\* ?year=: "2024"
DashboardYears == {Some(<<50, 48, 50, 52>>)}

\* ?month=: absent, " 3", "13", "x"
DashboardMonths == {None, Some(<<32, 51>>), Some(<<49, 51>>), Some(<<120>>)}

\* datetime.today() when the dashboard is asked for
Todays == {Date(2024, 2, 29)}

\* the ids of /delete/<int:id>: one that adds and imports give, one beyond
DeleteIds == {1, 5}

\* one day, and two days that begin with that day
OneDay ==
    [name |-> Some(NameAC), new_name |-> None, from_date |-> Some(Feb29),
     to_date |-> Some(Feb29), half_day |-> None, note |-> None]

TwoDays == [OneDay EXCEPT !.to_date = Some(Mar01)]

\* GET /, POST / with each password, /logout
SessionRequests(clients) ==
    [op : {"login"}, client : clients, method : {"GET"}, password : {None}]
    \cup [op : {"login"}, client : clients, method : {"POST"},
          password : PasswordInputs]
    \cup [op : {"logout"}, client : clients]

\* /dashboard, /add and /delete/<id>
HandlerRequests(clients, forms, months, ids) ==
    [op : {"dashboard"}, client : clients, year : DashboardYears,
     month : months]
    \cup [op : {"add"}, client : clients, form : forms]
    \cup [op : {"delete"}, client : clients, id : ids]

\* one client and every form
Requests == HandlerRequests({"c1"}, Forms, DashboardMonths, DeleteIds)

\* the requests sent while one of them is served: an add, a delete
BesideRequests ==
    {q \in HandlerRequests({"c1"}, {OneDay}, {None}, {1}) :
        q.op \in {"add", "delete"}}

\* two clients and one form
AuthRequests ==
    SessionRequests(Clients) \cup HandlerRequests(Clients, {OneDay}, {None}, {1})

\* one client, a few forms and a typed name
FreshRequests ==
    SessionRequests({"c1"})
    \cup HandlerRequests({"c1"},
             FewForms \cup {[OneDay EXCEPT !.new_name = Some(<<13>> \o NameB \o <<32>>)]},
             {None}, {1})

\* the adds, the dashboard of February 2024, the deletes of the first two ids
ConcRequests == HandlerRequests({"c1"}, {OneDay, TwoDays}, {None}, {1, 2})

\* ------------------------------------------------------------------------
\* add
\* ------------------------------------------------------------------------

\* faulty variant: new_name is not stripped
ResolveNameNoStrip(form) ==
    IF Truthy(form.new_name) THEN form.new_name ELSE form.name

\* name = form.get("name"); new_name = (form.get("new_name") or "").strip();
\* if new_name: name = new_name
ResolveName(form) ==
    LET new_name == Strip(IF Truthy(form.new_name) THEN Value(form.new_name)
                          ELSE <<>>)
    IN  IF new_name # <<>> THEN Some(new_name) ELSE form.name

\* the try block: both dates parse, else the handler returns
DatesParse(form) ==
    /\ form.from_date # None
    /\ form.to_date # None
    /\ StrpDate(Value(form.from_date)) # {}
    /\ StrpDate(Value(form.to_date)) # {}

StartOf(form) == Value(StrpDate(Value(form.from_date)))

EndOf(form) == Value(StrpDate(Value(form.to_date)))

\* faulty variant: the flag is taken for a range of any length
HalfFlagAnyRange(form) == form.half_day = Some(Yes)

\* half_flag = (form.get("half_day") == "yes" and start == end)
HalfFlag(form) == form.half_day = Some(Yes) /\ StartOf(form) = EndOf(form)

\* is_half = (half_flag and i == 0)
IsHalf(form, i) == HalfFlag(form) /\ i = 0

\* days = (end - start).days + 1; range(days) is empty when days <= 0
Days(form) ==
    LET n == ToOrdinal(EndOf(form)) - ToOrdinal(StartOf(form)) + 1
    IN  IF n < 0 THEN 0 ELSE n

\* note = form.get("note", "")
NoteOf(form) == IF form.note = None THEN <<>> ELSE Value(form.note)

\* the i-th Leave of the loop, i in 0..days-1, inserted with the given id
LeaveOfDay(form, i, id) ==
    Leave(id, Value(ResolveName(form)),
          FromOrdinal(ToOrdinal(StartOf(form)) + i), NoteOf(form),
          IsHalf(form, i))

\* ------------------------------------------------------------------------
\* dashboard
\* ------------------------------------------------------------------------

RECURSIVE Flatten(_)
Flatten(ss) == IF ss = <<>> THEN <<>> ELSE Head(ss) \o Flatten(Tail(ss))

\* int(request.args.get(key, default)): {} where int() raises ValueError
ArgInt(arg, default) == IF arg = None THEN {default} ELSE ParseInt(Value(arg))

\* dashboard up to the template: it raises where int() or build_calendar does
DashboardRaises(r, today) ==
    LET year  == ArgInt(r.year, today.year)
        month == ArgInt(r.month, today.month)
    IN  \/ year = {}
        \/ month = {}
        \/ BuildCalendarRaises(Value(year), Value(month))

\* jinja2's Undefined, what nm.split()[0] is in the template when the tag is
\* blank: no exception, and "not name" holds of it as of the empty string
Undefined == <<>>

\* the template's calls of get_color_for_employee, in rendering order: the
\* calendar's tags pass nm.split()[0], the side list passes lv.name
LookupArgs(year, month, rows) ==
    LET all          == OrderByDate(rows)
        month_leaves == SelectSeq(all, LAMBDA l : l.date.year = year
                                                  /\ l.date.month = month)
        weeks        == BuildCalendar(year, month, month_leaves)
        tags         == Flatten([w \in 1..Len(weeks) |->
                            Flatten([c \in 1..7 |-> weeks[w][c].names])])
    IN  [i \in 1..Len(tags) |->
            IF Split(tags[i]) = <<>> THEN Undefined ELSE Split(tags[i])[1]]
        \o [i \in 1..Len(all) |-> all[i].name]

\* ------------------------------------------------------------------------
\* Startup: db.create_all(), import_json_to_db()
\* ------------------------------------------------------------------------

\* JSON values of an entry's "half_day": true or false, a string
JsonBool(b) == [bool |-> b]

JsonStr(s) == [str |-> s]

\* bool(v)
Bool(v) == IF "bool" \in DOMAIN v THEN v.bool ELSE v.str # <<>>

\* an entry of leaves.json after json.load: the keys "name", "note" and
\* "half_day" when present; date is what
\* datetime.fromisoformat(lv["date"]).date() gives, None where it raises
Entry(name, date, note, half_day) ==
    [name |-> name, date |-> date, note |-> note, half_day |-> half_day]

\* "A C" on 2024-02-29, no note, a full day
EntryAC == Entry(Some(NameAC), Some(Date(2024, 2, 29)), None, None)


\* the deployment's files: employees.json, absent or not an object (nothing
\* is stored either way) or the items of the object in file order, and
\* leaves.json, absent or not a list or its entries
NoFiles == [emps |-> None, leaves |-> None]

\* the files where every form is sent: none, or one employee and one leave
FewFiles ==
    {NoFiles,
     [emps   |-> Some(<<[name |-> NameAC, color |-> <<120, 120, 120>>]>>),
      leaves |-> Some(<<EntryAC>>)]}

\* the files where few requests are sent: leaves.json alone, with an entry
\* without a date and a half day ("no" is a true string) with a note; both
\* files, with two employees and an entry without a name after a repeated
\* one
ConcFiles ==
    {[emps   |-> None,
      leaves |-> Some(<<Entry(Some(NameAC), None, None, None),
                        Entry(Some(NameAC), Some(Date(2024, 2, 29)), Some(<<110>>),
                              Some(JsonStr(<<110, 111>>)))>>)],
     [emps   |-> Some(<<[name |-> <<65>>, color |-> <<230, 230, 230>>],
                        [name |-> NameAC, color |-> <<230, 230, 230>>]>>),
      leaves |-> Some(<<EntryAC, EntryAC,
                        Entry(None, Some(Date(2024, 3, 1)), None,
                              Some(JsonBool(FALSE)))>>)]}

\* ------------------------------------------------------------------------
\* Workers: each serves one request at a time with its own db.session, all
\* on one database; a step is one statement sent to the database, or the
\* code between two of them
\* ------------------------------------------------------------------------

MaxStarted == 2

\* a worker between two requests: no session, nothing returned
IdleTx ==
    [at      |-> "idle",      \* where the worker stands
     rq      |-> NoRequest,   \* the request
     auth    |-> FALSE,       \* session.get("authed") of the request's cookie
     i       |-> 0,           \* add, import: the loop index
     rows    |-> {},          \* leaves rows flushed and not committed
     emps    |-> {},          \* employees rows flushed and not committed
     dels    |-> {},          \* leaves rows deleted and not committed
     added   |-> {},          \* add: the Leave added to the session and not
                              \* yet flushed
     pending |-> {},          \* the other object added to the session and
                              \* not yet flushed.  add: the colour of the
                              \* EmployeeColor; dashboard: its name; import:
                              \* the item of employees.json or the Leave
     args    |-> <<>>,        \* dashboard: arguments of the lookups to come
     side    |-> <<>>,        \* dashboard: ids of the Leave objects of grouped
     expired |-> FALSE,       \* dashboard: the session has committed
     loaded  |-> FALSE,       \* dashboard: the side item of the lookup to
                              \* come has been read since the last commit
     recheck |-> {},          \* dashboard: side item expired by its own lookup
     got     |-> {},          \* dashboard: name and colour of the last lookup
     resp    |-> NoResponse,
     ret     |-> "none",
     peers   |-> {}]          \* requests in progress when this one began

Running(v) == tx[v].rq # NoRequest /\ tx[v].at # "done"

\* the handler of worker w returns or raises: the response is made and the
\* session removed (what it has not committed is rolled back)
Return(w, response, at, kept) ==
    [tx[w] EXCEPT !.at = "done", !.resp = response, !.ret = at, !.rows = kept,
                  !.emps = {}, !.dels = {}, !.added = {}, !.pending = {},
                  !.args = <<>>, !.loaded = FALSE, !.recheck = {}]

\* faulty variant: the column is not declared unique
NoUniqueIndex(emps, name) == FALSE

\* name = db.Column(..., unique=True): an INSERT of a name that is committed
\* raises IntegrityError
UniqueViolation(emps, name) == EmployeeByName(emps, name) # {}

\* postgresql: an INSERT of a name another transaction has inserted and not
\* yet committed waits for that transaction
IndexBusy(w, name) ==
    \E v \in Workers \ {w} : EmployeeByName(tx[v].emps, name) # {}

\* postgresql: a DELETE of a row another transaction has deleted and not yet
\* committed waits for that transaction
RowBusy(w, id) ==
    \E v \in Workers \ {w} : \E l \in tx[v].dels : l.id = id

\* sqlite: one connection writes at a time; its first INSERT or DELETE takes
\* the lock, its COMMIT or ROLLBACK gives it back; a write waits for the lock
LockFree(w) == backend = "sqlite" => dbLock \in {0, w}

Acquire(w) == IF backend = "sqlite" THEN w ELSE dbLock

Release(w) == IF dbLock = w THEN 0 ELSE dbLock

Gone(id) == ~\E l \in leaves : l.id = id

\* the server hands a request to an idle worker (the workers being alike,
\* to the first of them); the request carries the session cookie its client
\* holds
StartRequest(w, requests, max) ==
    /\ tx[w].at = "idle"
    /\ \A v \in Workers : v < w => tx[v].at # "idle"
    /\ started < max
    /\ \E r \in requests :
         tx' = [tx EXCEPT ![w] =
                  [IdleTx EXCEPT !.at = "recv", !.rq = r,
                      !.auth = authed[r.client],
                      !.peers = {v \in Workers \ {w} : Running(v)}]]
    /\ started' = started + 1
    /\ UNCHANGED <<envVars, authed, storeVars, dbLock>>

\* faulty variant: a route without the decorator
NoGate(w) == TRUE

\* session.get("authed")
Authenticated(w) == tx[w].auth

\* the wrapper of require_auth: redirect("/") or the route's function
RequireAuth(w) ==
    /\ tx[w].at = "recv"
    /\ tx[w].rq.op \in {"dashboard", "add", "delete"}
    /\ tx' = [tx EXCEPT ![w] =
                IF Authenticated(w) THEN [@ EXCEPT !.at = "run"]
                ELSE Return(w, RedirectTo("/"), "require_auth", {})]
    /\ UNCHANGED <<envVars, authed, storeVars, dbLock, started>>

Login(w) ==
    /\ tx[w].at = "recv"
    /\ tx[w].rq.op = "login"
    /\ tx' = [tx EXCEPT ![w] =
                IF /\ tx[w].rq.method = "POST"
                   /\ (IF tx[w].rq.password = None THEN ""
                       ELSE Value(tx[w].rq.password)) = PASSWORD
                THEN Return(w, RedirectTo("/dashboard"), "login_ok", {})
                ELSE Return(w, Page("login"), "login_page", {})]
    /\ UNCHANGED <<envVars, authed, storeVars, dbLock, started>>

Logout(w) ==
    /\ tx[w].at = "recv"
    /\ tx[w].rq.op = "logout"
    /\ tx' = [tx EXCEPT ![w] = Return(w, RedirectTo("/"), "logout", {})]
    /\ UNCHANGED <<envVars, authed, storeVars, dbLock, started>>

\* the response leaves and the client keeps the cookie it sets:
\* session["authed"] = True of login, none after session.clear() of logout;
\* the worker is free again
Respond(w) ==
    /\ tx[w].at = "done"
    /\ authed' = IF tx[w].ret = "login_ok"
                 THEN [authed EXCEPT ![tx[w].rq.client] = TRUE]
                 ELSE IF tx[w].ret = "logout"
                 THEN [authed EXCEPT ![tx[w].rq.client] = FALSE]
                 ELSE authed
    /\ tx' = [v \in Workers |->
                IF v = w THEN IdleTx ELSE [tx[v] EXCEPT !.peers = @ \ {w}]]
    /\ UNCHANGED <<envVars, storeVars, dbLock, started>>

\* add up to the loop: the name, the dates, and the first session.add(Leave)
AddIteration(w) ==
    /\ tx[w].at = "run"
    /\ tx[w].rq.op = "add"
    /\ LET form == tx[w].rq.form
       IN  tx' = [tx EXCEPT ![w] =
                    IF ~Truthy(ResolveName(form))
                    THEN Return(w, RedirectTo("/dashboard"), "add_no_name", {})
                    ELSE IF ~DatesParse(form)
                    THEN Return(w, RedirectTo("/dashboard"), "add_bad_date", {})
                    ELSE IF Days(form) = 0
                    THEN [@ EXCEPT !.at = "commit"]
                    ELSE [@ EXCEPT !.at = "flush",
                                   !.added = {LeaveOfDay(form, 0, 0)}]]
    /\ UNCHANGED <<envVars, authed, storeVars, dbLock, started>>

\* one INSERT of a flush of add's session, the one before the query of a
\* pass or the one of db.session.commit(): of the Leave the pass has added,
\* or of the EmployeeColor the pass before has added, in the order the
\* flush takes them
AddInsert(w) ==
    /\ tx[w].at \in {"flush", "commit"}
    /\ tx[w].rq.op = "add"
    /\ LockFree(w)
    /\ LET name == Value(ResolveName(tx[w].rq.form))
           next == IF tx[w].at = "flush" THEN "select" ELSE "commit"
       IN  \/ \E lv \in tx[w].added :
                /\ tx' = [tx EXCEPT ![w] =
                            [@ EXCEPT !.added = {},
                                !.rows = @ \cup
                                   {[lv EXCEPT !.id =
                                        NextId(leaves \cup tx[w].rows, leaveSeq)]},
                                !.at = IF tx[w].pending = {} THEN next ELSE @]]
                /\ dbLock' = Acquire(w)
                /\ leaveSeq' = BumpSeq(leaveSeq, 1)
                /\ UNCHANGED empSeq
           \/ \E c \in tx[w].pending :
                /\ ~IndexBusy(w, name)
                /\ IF UniqueViolation(employees, name)
                   THEN /\ tx' = [tx EXCEPT ![w] =
                                    Return(w, ServerError, "integrity_error", {})]
                        /\ dbLock' = Release(w)
                   ELSE /\ tx' = [tx EXCEPT ![w] =
                                    [@ EXCEPT !.pending = {},
                                        !.emps = @ \cup
                                           {EmployeeColor(
                                               NextId(employees \cup tx[w].emps,
                                                      empSeq), name, c)},
                                        !.at = IF tx[w].added = {} THEN next
                                               ELSE @]]
                        /\ dbLock' = Acquire(w)
                /\ empSeq' = BumpSeq(empSeq, 1)
                /\ UNCHANGED leaveSeq
    /\ UNCHANGED <<envVars, authed, leaves, employees, started>>

\* the query of a pass, after its flush: the SELECT of the EmployeeColor,
\* db.session.add of a new one when there is none, and the next pass's
\* session.add(Leave)
AddSelect(w, palette) ==
    /\ tx[w].at = "select"
    /\ LET form  == tx[w].rq.form
           found == EmployeeByName(employees \cup tx[w].emps,
                                   Value(ResolveName(form))) # {}
           more  == tx[w].i + 1 < Days(form)
       IN  \E c \in palette :
              tx' = [tx EXCEPT ![w] =
                       [@ EXCEPT !.i = @ + 1,
                           !.pending = IF found THEN {} ELSE {c},
                           !.added = IF more
                                     THEN {LeaveOfDay(form, tx[w].i + 1, 0)}
                                     ELSE {},
                           !.at = IF more THEN "flush" ELSE "commit"]]
    /\ UNCHANGED <<envVars, authed, storeVars, dbLock, started>>

\* db.session.commit() after the loop, its flush done: the COMMIT, and the
\* redirect
AddCommit(w) ==
    /\ tx[w].at = "commit"
    /\ tx[w].rq.op = "add"
    /\ tx[w].pending = {}
    /\ leaves' = leaves \cup tx[w].rows
    /\ employees' = employees \cup tx[w].emps
    /\ tx' = [tx EXCEPT ![w] =
                Return(w, RedirectTo("/dashboard"), "add_commit", tx[w].rows)]
    /\ dbLock' = Release(w)
    /\ UNCHANGED <<envVars, authed, leaveSeq, empSeq, started>>

\* the rows Leave.query.filter_by(id=id).delete() leaves
DeleteById(rows, id) == {l \in rows : l.id # id}

\* delete: the DELETE; on sqlite it takes the write lock whether or not a
\* row has that id
DeleteStatement(w) ==
    /\ tx[w].at = "run"
    /\ tx[w].rq.op = "delete"
    /\ LockFree(w)
    /\ backend = "postgresql" => ~RowBusy(w, tx[w].rq.id)
    /\ tx' = [tx EXCEPT ![w] =
                [@ EXCEPT !.at = "deleted",
                          !.dels = leaves \ DeleteById(leaves, tx[w].rq.id)]]
    /\ dbLock' = Acquire(w)
    /\ UNCHANGED <<envVars, authed, storeVars, started>>

\* delete: db.session.commit() and the redirect
DeleteCommit(w) ==
    /\ tx[w].at = "deleted"
    /\ leaves' = leaves \ tx[w].dels
    /\ tx' = [tx EXCEPT ![w] = Return(w, RedirectTo("/dashboard"), "delete", {})]
    /\ dbLock' = Release(w)
    /\ UNCHANGED <<envVars, authed, employees, leaveSeq, empSeq, started>>

\* dashboard: the SELECT of the employees; their names fill the select of
\* the add form
DashboardNames(w) ==
    /\ tx[w].at = "run"
    /\ tx[w].rq.op = "dashboard"
    /\ tx' = [tx EXCEPT ![w] = [@ EXCEPT !.at = "query"]]
    /\ UNCHANGED <<envVars, authed, storeVars, dbLock, started>>

\* dashboard from there to the rendering: the SELECT of the leaves, year
\* and month, build_calendar, grouped
DashboardQuery(w) ==
    /\ tx[w].at = "query"
    /\ \E today \in Todays :
       IF DashboardRaises(tx[w].rq, today)
       THEN tx' = [tx EXCEPT ![w] = Return(w, ServerError, "dashboard_raise", {})]
       ELSE tx' = [tx EXCEPT ![w] =
                     [@ EXCEPT !.at = "render",
                               !.args = LookupArgs(
                                   Value(ArgInt(tx[w].rq.year, today.year)),
                                   Value(ArgInt(tx[w].rq.month, today.month)),
                                   leaves),
                               !.side = LET all == OrderByDate(leaves)
                                        IN  [k \in 1..Len(all) |-> all[k].id]]]
    /\ UNCHANGED <<envVars, authed, storeVars, dbLock, started>>

\* the lookup to come is one of the side list
IsSide(w) == Len(tx[w].args) <= Len(tx[w].side)

\* the id of its Leave object
SideRow(w) == tx[w].side[Len(tx[w].side) - Len(tx[w].args) + 1]

\* the template is about to touch a Leave object the session's commit has
\* expired: the item of the side list whose lookup has committed, or the
\* item of the lookup to come
StaleObject(w) ==
    \/ tx[w].recheck # {}
    \/ tx[w].args # <<>> /\ IsSide(w) /\ tx[w].expired /\ ~tx[w].loaded

\* the expired Leave object is read again by its id, a SELECT of its own:
\* ObjectDeletedError if the row is gone, else lv.name is the name the row
\* has now
RefreshLeave(w) ==
    /\ tx[w].at = "render"
    /\ StaleObject(w)
    /\ tx' = [tx EXCEPT ![w] =
                IF tx[w].recheck # {}
                THEN IF \E id \in tx[w].recheck : Gone(id)
                     THEN Return(w, ServerError, "object_deleted", {})
                     ELSE [@ EXCEPT !.recheck = {}]
                ELSE IF Gone(SideRow(w))
                     THEN Return(w, ServerError, "object_deleted", {})
                     ELSE [@ EXCEPT !.loaded = TRUE,
                              !.args = <<(CHOOSE l \in leaves :
                                             l.id = SideRow(w)).name>>
                                       \o Tail(@)]]
    /\ UNCHANGED <<envVars, authed, storeVars, dbLock, started>>

\* get_color_for_employee up to its return or its db.session.add: the
\* SELECT of the EmployeeColor
ColorLookup(w) ==
    /\ tx[w].at = "render"
    /\ tx[w].args # <<>>
    /\ ~StaleObject(w)
    /\ LET name == Head(tx[w].args)
           emp  == EmployeeByName(employees, name)
       IN  tx' = [tx EXCEPT ![w] =
                    IF name = <<>>
                    THEN [@ EXCEPT !.args = Tail(@), !.loaded = FALSE,
                             !.got = {[name |-> name, color |-> DefaultColor]}]
                    ELSE IF emp # {}
                    THEN [@ EXCEPT !.args = Tail(@), !.loaded = FALSE,
                             !.got = {[name |-> name, color |-> e.color] :
                                         e \in emp}]
                    ELSE [@ EXCEPT !.at = "insert", !.pending = {name}]]
    /\ UNCHANGED <<envVars, authed, storeVars, dbLock, started>>

\* get_color_for_employee from generate_color() on, db.session.commit(): the
\* flush of the EmployeeColor (its INSERT), then the COMMIT and the return, a
\* step each
ColorCommit(w, palette) ==
    /\ tx[w].at = "insert"
    /\ IF tx[w].pending # {}
       THEN \E name \in tx[w].pending :
              /\ LockFree(w)
              /\ ~IndexBusy(w, name)
              /\ IF UniqueViolation(employees, name)
                 THEN /\ tx' = [tx EXCEPT ![w] =
                                  Return(w, ServerError, "integrity_error", {})]
                      /\ dbLock' = Release(w)
                 ELSE /\ \E c \in palette :
                           tx' = [tx EXCEPT ![w] =
                                    [@ EXCEPT !.pending = {},
                                        !.emps = {EmployeeColor(
                                                     NextId(employees, empSeq),
                                                     name, c)}]]
                      /\ dbLock' = Acquire(w)
              /\ empSeq' = BumpSeq(empSeq, 1)
              /\ UNCHANGED employees
       ELSE /\ employees' = employees \cup tx[w].emps
            /\ tx' = [tx EXCEPT ![w] =
                        [@ EXCEPT !.at = "render", !.args = Tail(@),
                            !.emps = {}, !.expired = TRUE, !.loaded = FALSE,
                            !.recheck = IF IsSide(w) THEN {SideRow(w)} ELSE {},
                            !.got = {[name |-> e.name, color |-> e.color] :
                                        e \in tx[w].emps}]]
            /\ dbLock' = Release(w)
            /\ UNCHANGED empSeq
    /\ UNCHANGED <<envVars, authed, leaves, leaveSeq, started>>

\* the template is rendered to its end
DashboardReturn(w) ==
    /\ tx[w].at = "render"
    /\ tx[w].args = <<>>
    /\ ~StaleObject(w)
    /\ tx' = [tx EXCEPT ![w] =
                [Return(w, Page("dashboard"), "dashboard", {})
                    EXCEPT !.got = tx[w].got]]
    /\ UNCHANGED <<envVars, authed, storeVars, dbLock, started>>

\* ------------------------------------------------------------------------
\* Startup of a worker process: db.create_all() (the tables exist from then
\* on), import_json_to_db()
\* ------------------------------------------------------------------------

\* where import_json_to_db goes on after the employees: the leaves, or the
\* end when there is no leaves.json
AfterEmployees ==
    IF files.leaves = None THEN IdleTx ELSE [IdleTx EXCEPT !.at = "imp_leaves"]

\* if Leave.query.count() > 0: return
ImportCount(w) ==
    /\ tx[w].at = "boot"
    /\ tx' = [tx EXCEPT ![w] =
                IF leaves # {} THEN IdleTx
                ELSE IF files.emps # None THEN [IdleTx EXCEPT !.at = "imp_emps"]
                ELSE AfterEmployees]
    /\ UNCHANGED <<envVars, authed, storeVars, dbLock, started>>

\* the INSERT of the EmployeeColor that is pending
PendingEmployee(w) ==
    {EmployeeColor(NextId(employees \cup tx[w].emps, empSeq), p.name, p.color) :
        p \in tx[w].pending}

\* the flush of the employees' import, before the query of a pass or in
\* db.session.commit(): the INSERT of the EmployeeColor the pass before has
\* added.  An INSERT of a name that has been committed meanwhile raises
\* IntegrityError: the except clause rolls back and the import goes on with
\* the leaves
ImportEmployeeInsert(w) ==
    /\ tx[w].at = "imp_emps"
    /\ tx[w].pending # {}
    /\ LockFree(w)
    /\ \A p \in tx[w].pending : ~IndexBusy(w, p.name)
    /\ IF \E p \in tx[w].pending : UniqueViolation(employees, p.name)
       THEN /\ tx' = [tx EXCEPT ![w] = AfterEmployees]
            /\ dbLock' = Release(w)
       ELSE /\ tx' = [tx EXCEPT ![w] =
                        [@ EXCEPT !.emps = @ \cup PendingEmployee(w),
                                  !.pending = {}]]
            /\ dbLock' = Acquire(w)
    /\ empSeq' = BumpSeq(empSeq, 1)
    /\ UNCHANGED <<envVars, authed, leaves, employees, leaveSeq, started>>

\* one pass of the loop over emps.items(), after its flush: the SELECT of
\* the EmployeeColor, and db.session.add for a name that has no row
ImportEmployee(w) ==
    /\ tx[w].at = "imp_emps"
    /\ tx[w].i < Len(Value(files.emps))
    /\ tx[w].pending = {}
    /\ LET it == Value(files.emps)[tx[w].i + 1]
       IN  tx' = [tx EXCEPT ![w] =
                    [@ EXCEPT !.i = @ + 1,
                        !.pending =
                           IF EmployeeByName(employees \cup tx[w].emps,
                                             it.name) # {}
                           THEN {} ELSE {it}]]
    /\ UNCHANGED <<envVars, authed, storeVars, dbLock, started>>

\* db.session.commit() of the employees, its flush done: the COMMIT
ImportEmployeesCommit(w) ==
    /\ tx[w].at = "imp_emps"
    /\ tx[w].i = Len(Value(files.emps))
    /\ tx[w].pending = {}
    /\ employees' = employees \cup tx[w].emps
    /\ tx' = [tx EXCEPT ![w] = AfterEmployees]
    /\ dbLock' = Release(w)
    /\ UNCHANGED <<envVars, authed, leaves, leaveSeq, empSeq, started>>

\* the INSERT of the Leave that is pending
PendingLeave(w) ==
    {[p EXCEPT !.id = NextId(leaves \cup tx[w].rows, leaveSeq)] :
        p \in tx[w].pending}

\* the entry of leaves.json the loop has come to has a date and a name: its
\* pass sends a query
Queries(w) ==
    LET lv == Value(files.leaves)[tx[w].i + 1]
    IN  lv.date # None /\ lv.name # None

\* the flush of the leaves' import, before the query of a pass or in
\* db.session.commit(): the INSERT of the Leave an earlier pass has added
ImportLeaveInsert(w) ==
    /\ tx[w].at = "imp_leaves"
    /\ tx[w].pending # {}
    /\ IF tx[w].i = Len(Value(files.leaves)) THEN TRUE ELSE Queries(w)
    /\ LockFree(w)
    /\ tx' = [tx EXCEPT ![w] =
                [@ EXCEPT !.rows = @ \cup PendingLeave(w), !.pending = {}]]
    /\ dbLock' = Acquire(w)
    /\ leaveSeq' = BumpSeq(leaveSeq, 1)
    /\ UNCHANGED <<envVars, authed, leaves, employees, empSeq, started>>

\* one pass of the loop over the entries of leaves.json.  An entry without
\* a date is passed over; one without a name raises KeyError before its
\* query: the except clause rolls back and the import ends; else, after the
\* flush, the SELECT of a row with the entry's name, date and note, and
\* db.session.add when there is none
ImportLeave(w) ==
    /\ tx[w].at = "imp_leaves"
    /\ tx[w].i < Len(Value(files.leaves))
    /\ LET lv == Value(files.leaves)[tx[w].i + 1]
       IN  IF lv.date = None
           THEN /\ tx' = [tx EXCEPT ![w] = [@ EXCEPT !.i = @ + 1]]
                /\ UNCHANGED dbLock
           ELSE IF lv.name = None
           THEN /\ tx' = [tx EXCEPT ![w] = IdleTx]
                /\ dbLock' = Release(w)
           ELSE LET note   == IF lv.note = None THEN <<>> ELSE Value(lv.note)
                    exists == \E r \in leaves \cup tx[w].rows :
                                 /\ r.name = Value(lv.name)
                                 /\ r.date = Value(lv.date)
                                 /\ r.note = note
                IN  /\ tx[w].pending = {}
                    /\ tx' = [tx EXCEPT ![w] =
                                [@ EXCEPT !.i = @ + 1,
                                    !.pending =
                                       IF exists THEN {}
                                       ELSE {Leave(0, Value(lv.name),
                                                Value(lv.date), note,
                                                /\ lv.half_day # None
                                                /\ Bool(Value(lv.half_day)))}]]
                    /\ UNCHANGED dbLock
    /\ UNCHANGED <<envVars, authed, storeVars, started>>

\* db.session.commit() of the leaves, its flush done: the COMMIT
ImportLeavesCommit(w) ==
    /\ tx[w].at = "imp_leaves"
    /\ tx[w].i = Len(Value(files.leaves))
    /\ tx[w].pending = {}
    /\ leaves' = leaves \cup tx[w].rows
    /\ tx' = [tx EXCEPT ![w] = IdleTx]
    /\ dbLock' = Release(w)
    /\ UNCHANGED <<envVars, authed, employees, leaveSeq, empSeq, started>>

\* the statement to come writes
Writes(w) ==
    \/ tx[w].at = "insert" /\ tx[w].pending # {}
    \/ tx[w].at = "run" /\ tx[w].rq.op = "delete"
    \/ tx[w].at = "flush"
    \/ tx[w].at = "commit" /\ tx[w].pending # {}
    \/ tx[w].at = "imp_emps" /\ tx[w].pending # {}
    \/ /\ tx[w].at = "imp_leaves"
       /\ tx[w].pending # {}
       /\ IF tx[w].i = Len(Value(files.leaves)) THEN TRUE ELSE Queries(w)

\* sqlite3's busy timeout (5 seconds) runs out while another connection holds
\* the lock: OperationalError, database is locked.  A route does not catch
\* it; the except clauses of import_json_to_db do, and roll back
BusyTimeout(w) ==
    /\ backend = "sqlite"
    /\ dbLock \notin {0, w}
    /\ Writes(w)
    /\ tx' = [tx EXCEPT ![w] =
                IF tx[w].at = "imp_emps" THEN AfterEmployees
                ELSE IF tx[w].at = "imp_leaves" THEN IdleTx
                ELSE Return(w, ServerError, "database_locked", {})]
    /\ UNCHANGED <<envVars, authed, storeVars, dbLock, started>>

\* ------------------------------------------------------------------------
\* Specifications
\* ------------------------------------------------------------------------

\* the server has started its workers, with the tables empty; client c1
\* holds the cookie of a login
Booting ==
    /\ authed = [c \in Clients |-> c = "c1"]
    /\ leaves = {}
    /\ employees = {}
    /\ leaveSeq = 0
    /\ empSeq = 0
    /\ tx = [w \in Workers |-> [IdleTx EXCEPT !.at = "boot"]]
    /\ dbLock = 0
    /\ started = 0
    /\ cal = <<>>

\* a deployment without employees.json and leaves.json, whose workers'
\* starts import nothing: the workers wait for requests
Idle ==
    /\ files = NoFiles
    /\ leaves = {}
    /\ employees = {}
    /\ leaveSeq = 0
    /\ empSeq = 0
    /\ tx = [w \in Workers |-> IdleTx]
    /\ dbLock = 0
    /\ started = 0
    /\ cal = <<>>

\* every form of one client, beside the import of a few files
Init ==
    /\ backend \in Backends
    /\ files \in FewFiles
    /\ Booting

Next ==
    \E w \in Workers :
        \/ ImportCount(w)
        \/ ImportEmployee(w)
        \/ ImportEmployeeInsert(w)
        \/ ImportEmployeesCommit(w)
        \/ ImportLeave(w)
        \/ ImportLeaveInsert(w)
        \/ ImportLeavesCommit(w)
        \/ StartRequest(w, IF w = 1 THEN Requests ELSE BesideRequests, MaxStarted)
        \/ RequireAuth(w)
        \/ AddIteration(w)
        \/ AddInsert(w)
        \/ AddSelect(w, OneColor)
        \/ AddCommit(w)
        \/ DeleteStatement(w)
        \/ DeleteCommit(w)
        \/ DashboardNames(w)
        \/ DashboardQuery(w)
        \/ RefreshLeave(w)
        \/ ColorLookup(w)
        \/ ColorCommit(w, OneColor)
        \/ DashboardReturn(w)
        \/ BusyTimeout(w)
        \/ Respond(w)

Spec == Init /\ [][Next]_vars

\* no import: one client that logs in and out and sends a few forms
InitFresh ==
    /\ backend \in Backends
    /\ authed = [c \in Clients |-> c = "c1"]
    /\ Idle

NextFresh ==
    \E w \in Workers :
        \/ StartRequest(w, FreshRequests, MaxStarted)
        \/ RequireAuth(w)
        \/ Login(w)
        \/ Logout(w)
        \/ AddIteration(w)
        \/ AddInsert(w)
        \/ AddSelect(w, OneColor)
        \/ AddCommit(w)
        \/ DeleteStatement(w)
        \/ DeleteCommit(w)
        \/ DashboardNames(w)
        \/ DashboardQuery(w)
        \/ RefreshLeave(w)
        \/ ColorLookup(w)
        \/ ColorCommit(w, OneColor)
        \/ DashboardReturn(w)
        \/ BusyTimeout(w)
        \/ Respond(w)

SpecFresh == InitFresh /\ [][NextFresh]_vars

\* two clients, each with or without the cookie of a login
InitAuth ==
    /\ backend \in Backends
    /\ authed \in [Clients -> BOOLEAN]
    /\ Idle

NextAuth ==
    \E w \in Workers :
        \/ StartRequest(w, AuthRequests, MaxStarted)
        \/ RequireAuth(w)
        \/ Login(w)
        \/ Logout(w)
        \/ AddIteration(w)
        \/ AddInsert(w)
        \/ AddSelect(w, OneColor)
        \/ AddCommit(w)
        \/ DeleteStatement(w)
        \/ DeleteCommit(w)
        \/ DashboardNames(w)
        \/ DashboardQuery(w)
        \/ RefreshLeave(w)
        \/ ColorLookup(w)
        \/ ColorCommit(w, OneColor)
        \/ DashboardReturn(w)
        \/ BusyTimeout(w)
        \/ Respond(w)

SpecAuth == InitAuth /\ [][NextAuth]_vars

\* a few requests of one client with two colours to draw, beside the import
\* of every file
InitConc ==
    /\ backend \in Backends
    /\ files \in ConcFiles
    /\ Booting

NextConc ==
    \E w \in Workers :
        \/ ImportCount(w)
        \/ ImportEmployee(w)
        \/ ImportEmployeeInsert(w)
        \/ ImportEmployeesCommit(w)
        \/ ImportLeave(w)
        \/ ImportLeaveInsert(w)
        \/ ImportLeavesCommit(w)
        \/ StartRequest(w, ConcRequests, MaxStarted)
        \/ RequireAuth(w)
        \/ AddIteration(w)
        \/ AddInsert(w)
        \/ AddSelect(w, Colors)
        \/ AddCommit(w)
        \/ DeleteStatement(w)
        \/ DeleteCommit(w)
        \/ DashboardNames(w)
        \/ DashboardQuery(w)
        \/ RefreshLeave(w)
        \/ ColorLookup(w)
        \/ ColorCommit(w, Colors)
        \/ DashboardReturn(w)
        \/ BusyTimeout(w)
        \/ Respond(w)

SpecConc == InitConc /\ [][NextConc]_vars

\* ------------------------------------------------------------------------
\* build_calendar on its own
\* ------------------------------------------------------------------------

MaxCalLeaves == 2

\* 0 is below datetime.MINYEAR; 1900, 2021 and 2023 are no leap years, and
\* February 2021 is four whole weeks
CalYears == {0, 1900, 2000, 2021, 2023, 2024}

\* 13 is no month
CalMonths == 1..13

\* rows on the 29th of two months of 2024
CalRecords ==
    [name : {NameAC, NameB}, date : {Date(2024, 2, 29), Date(2024, 3, 29)},
     half_day : BOOLEAN]

\* the lists of at most MaxCalLeaves rows; a row's id is its position
CalLeaves ==
    UNION {{[i \in 1..n |-> Leave(i, f[i].name, f[i].date, <<>>, f[i].half_day)] :
              f \in [1..n -> CalRecords]} : n \in 0..MaxCalLeaves}

CalCall(year, month, lvs) ==
    [at |-> "call", year |-> year, month |-> month, lvs |-> lvs, out |-> <<>>]

InitCal ==
    /\ backend = "sqlite"
    /\ files = NoFiles
    /\ authed = [c \in Clients |-> FALSE]
    /\ leaves = {}
    /\ employees = {}
    /\ leaveSeq = 0
    /\ empSeq = 0
    /\ tx = [w \in Workers |-> IdleTx]
    /\ dbLock = 0
    /\ started = 0
    /\ \E year \in CalYears, month \in CalMonths, lvs \in CalLeaves :
          cal = CalCall(year, month, lvs)

\* the call returns its grid or raises
BuildCalendarCall ==
    /\ cal.at = "call"
    /\ cal' = IF BuildCalendarRaises(cal.year, cal.month)
              THEN [cal EXCEPT !.at = "raise"]
              ELSE [cal EXCEPT !.at = "return",
                               !.out = BuildCalendar(cal.year, cal.month, cal.lvs)]
    /\ UNCHANGED <<backend, files, authed, storeVars, tx, dbLock, started>>

NextCal == BuildCalendarCall

SpecCal == InitCal /\ [][NextCal]_vars

\* ------------------------------------------------------------------------
\* Properties of the handlers
\* ------------------------------------------------------------------------

\* the step in which the handler of worker w returns or raises
Returns(w, op) == tx[w].rq.op = op /\ tx[w].at # "done" /\ tx'[w].at = "done"

\* the step in which the response of worker w leaves
Responds(w, op) == tx[w].rq.op = op /\ tx[w].at = "done" /\ tx'[w].at = "idle"

\* a step of the request of worker w
StepOf(w) == [tx'[w] EXCEPT !.peers = {}] # [tx[w] EXCEPT !.peers = {}]

Blank(opt) ==
    opt = None \/ \A i \in 1..Len(Value(opt)) : Value(opt)[i] \in Whitespace

\* a form names an employee: a typed name that is not blank, or a selected one
NamesEmployee(f) == ~Blank(f.new_name) \/ (f.name # None /\ Value(f.name) # <<>>)

ExpectedName(f) ==
    IF ~Blank(f.new_name) THEN Strip(Value(f.new_name)) ELSE Value(f.name)

WellFormed(opt) == opt # None /\ StrpDate(Value(opt)) # {}

FromOrd(f) == ToOrdinal(Value(StrpDate(Value(f.from_date))))

ToOrd(f) == ToOrdinal(Value(StrpDate(Value(f.to_date))))

SubmittedNote(f) == IF f.note = None THEN <<>> ELSE Value(f.note)

HalfRequested(f) == f.half_day = Some(Yes)

\* the rows new are one per day of lo..hi
OnePerDay(new, lo, hi) ==
    /\ Cardinality(new) = hi - lo + 1
    /\ \A n \in lo..hi : Cardinality({l \in new : ToOrdinal(l.date) = n}) = 1
    /\ \A l \in new : ToOrdinal(l.date) \in lo..hi

\* an add of a session that is logged in, with a name and two dates
GoodAdd(w) ==
    /\ tx[w].rq.op = "add"
    /\ tx[w].auth
    /\ NamesEmployee(tx[w].rq.form)
    /\ WellFormed(tx[w].rq.form.from_date)
    /\ WellFormed(tx[w].rq.form.to_date)

\* C1: an authenticated add with a resolved non-empty name and well-formed
\* from_date <= to_date leaves every row in place and inserts exactly one
\* new row per day of the inclusive range, whatever the table holds; each
\* carries the resolved name (the trimmed new_name, else the selected
\* name) and the submitted note, and is half-day exactly when the flag was
\* requested and from_date = to_date.
C1_AddInsertsOnePerDay ==
    [][\A w \in Workers :
         (/\ Returns(w, "add")
          /\ GoodAdd(w)
          /\ FromOrd(tx[w].rq.form) <= ToOrd(tx[w].rq.form))
         => LET f   == tx[w].rq.form
                new == leaves' \ leaves
            IN  /\ leaves \subseteq leaves'
                /\ OnePerDay(new, FromOrd(f), ToOrd(f))
                /\ \A l \in new :
                      /\ l.id \notin {k.id : k \in leaves}
                      /\ l.name = ExpectedName(f)
                      /\ l.note = SubmittedNote(f)
                      /\ l.half_day = (HalfRequested(f) /\ FromOrd(f) = ToOrd(f))
      ]_vars

\* an add that names no employee or lacks a date
AbortedAdd(w) ==
    /\ tx[w].rq.op = "add"
    /\ tx[w].auth
    /\ \/ ~NamesEmployee(tx[w].rq.form)
       \/ ~WellFormed(tx[w].rq.form.from_date)
       \/ ~WellFormed(tx[w].rq.form.to_date)

\* C2: an authenticated add that names no employee, or whose from_date or
\* to_date is missing or no date, changes neither table in any of its
\* steps, whatever other requests are served beside it, and is answered
\* with a redirect to the dashboard.
C2_AddAbortsWithoutEffect ==
    [][\A w \in Workers :
         (StepOf(w) /\ AbortedAdd(w))
         => /\ leaves' = leaves
            /\ employees' = employees
            /\ tx'[w].at \in {"run", "done", "idle"}
            /\ tx'[w].rows = {}
            /\ tx'[w].emps = {}
            /\ tx'[w].added = {}
            /\ tx'[w].pending = {}
            /\ Returns(w, "add") => tx'[w].resp = RedirectTo("/dashboard")
      ]_vars

\* C2 witness: an add whose only name is a blank new_name has returned, and
\* one whose to_date is missing has returned after rows were stored
C2_Witness ==
    \E w \in Workers :
        /\ tx[w].rq.op = "add"
        /\ tx[w].at = "done"
        /\ tx[w].resp = RedirectTo("/dashboard")
        /\ leaves # {}
        /\ \/ (tx[w].rq.form.name = None /\ tx[w].rq.form.new_name = Some(<<160>>))
           \/ (NamesEmployee(tx[w].rq.form) /\ tx[w].rq.form.to_date = None)

\* C3: an authenticated delete removes the row with that id and nothing
\* else, at most one row; with no such row both tables are unchanged; it
\* never fails.  No step changes a field of a row that stays.
C3_DeleteRemovesOnlyThatRow ==
    [][/\ \A w \in Workers :
            (tx[w].rq.op = "delete" /\ tx[w].auth /\ StepOf(w))
            => /\ employees' = employees
               /\ tx[w].at = "run" =>
                     /\ leaves' = leaves
                     /\ tx'[w].at = "deleted"
                     /\ tx'[w].dels = {l \in leaves : l.id = tx[w].rq.id}
                     /\ Cardinality(tx'[w].dels) <= 1
               /\ tx[w].at = "deleted" =>
                     /\ leaves' = leaves \ tx[w].dels
                     /\ tx'[w].resp = RedirectTo("/dashboard")
       /\ \A l \in leaves' : (\E k \in leaves : k.id = l.id) => l \in leaves
      ]_vars

\* C5: a dashboard, add or delete request of a session whose flag is unset
\* is answered with a redirect to / and changes neither table.  The flag
\* of a session becomes set only by the response to that session's POST of
\* the shared password, which sets it; the response to a POST of anything
\* else leaves it unset; the response to logout unsets it, and nothing else
\* does.
C5_AuthGate ==
    [][/\ \A w \in Workers :
            /\ (tx[w].at = "idle" /\ tx'[w].at = "recv")
                  => tx'[w].auth = authed[tx'[w].rq.client]
            /\ (/\ tx[w].rq.op \in {"dashboard", "add", "delete"}
                /\ ~tx[w].auth
                /\ StepOf(w))
                  => /\ leaves' = leaves
                     /\ employees' = employees
                     /\ tx'[w].at \in {"done", "idle"}
                     /\ tx'[w].at = "done" => tx'[w].resp = RedirectTo("/")
            /\ (/\ Responds(w, "login")
                /\ tx[w].rq.method = "POST"
                /\ tx[w].rq.password = Some("1234"))
                  => authed'[tx[w].rq.client]
            /\ (/\ Responds(w, "login")
                /\ ~authed[tx[w].rq.client]
                /\ (tx[w].rq.method # "POST" \/ tx[w].rq.password # Some("1234")))
                  => ~authed'[tx[w].rq.client]
            /\ Responds(w, "logout") => ~authed'[tx[w].rq.client]
       /\ \A c \in Clients :
            /\ (~authed[c] /\ authed'[c])
                  => \E w \in Workers :
                        /\ Responds(w, "login")
                        /\ tx[w].rq.client = c
                        /\ tx[w].rq.method = "POST"
                        /\ tx[w].rq.password = Some("1234")
            /\ (authed[c] /\ ~authed'[c])
                  => \E w \in Workers :
                        Responds(w, "logout") /\ tx[w].rq.client = c
      ]_vars

\* C5 witness: with a row stored, a logged-out session's delete of it has
\* been turned away while another session is logged in
C5_Witness ==
    \E w \in Workers :
        /\ tx[w].rq.op = "delete"
        /\ tx[w].ret = "require_auth"
        /\ tx[w].resp = RedirectTo("/")
        /\ ~authed[tx[w].rq.client]
        /\ tx[w].rq.id \in {l.id : l \in leaves}
        /\ \E c \in Clients : authed[c]

\* C6: every employee-color entry a step creates bears the resolved name of
\* the add that commits in that step, or the name of a leave that is stored
\* or that the dashboard being rendered has read (the resolved name of an
\* earlier add); rendering the dashboard, delete, login and logout create
\* no entry under any other name.
C6_EntriesOnlyForAddedNames ==
    [][\A e \in employees' \ employees :
          \/ \E w \in Workers :
                /\ Returns(w, "add")
                /\ NamesEmployee(tx[w].rq.form)
                /\ e.name = ExpectedName(tx[w].rq.form)
          \/ \E l \in leaves : l.name = e.name
          \/ \E w \in Workers :
                /\ tx[w].rq.op = "dashboard"
                /\ tx[w].args # <<>>
                /\ IsSide(w)
                /\ Head(tx[w].args) = e.name
      ]_vars

\* an add of a session that is logged in, over more than one day and with
\* the half-day flag
RangeWithFlag(w) ==
    /\ tx[w].rq.op = "add"
    /\ HalfRequested(tx[w].rq.form)
    /\ GoodAdd(w)
    /\ FromOrd(tx[w].rq.form) < ToOrd(tx[w].rq.form)

LeapYear(y) == (y % 4 = 0 /\ y % 100 # 0) \/ y % 400 = 0

MonthLength(y, m) ==
    <<31, IF LeapYear(y) THEN 29 ELSE 28, 31, 30, 31, 30, 31, 31, 30, 31, 30, 31>>[m]

\* the weekday of a date, Monday 0 .. Sunday 6
MondayIndex(y, m, d) ==
    LET yy == IF m < 3 THEN y - 1 ELSE y
        t  == <<0, 3, 2, 5, 0, 3, 5, 1, 4, 6, 2, 4>>[m]
    IN  (yy + (yy \div 4) - (yy \div 100) + (yy \div 400) + t + d + 6) % 7

\* a call with a year and a month that exist has returned
CalReturned ==
    /\ cal.at = "return"
    /\ cal.year \in 1..9999
    /\ cal.month \in 1..12

CalCells == {<<w, c>> : w \in 1..Len(cal.out), c \in 1..7}

PaddingCell == [day |-> 0, names |-> <<>>]

\* C8: for every year that exists and every month 1..12 the grid has
\* ceil((days in month + weekday of the 1st) / 7) weeks of 7 cells; the days
\* 1..days-in-month stand in increasing order, each in the column of its
\* Monday-first weekday; every other cell is padding with day 0 and no
\* names; February has a 29th in leap years and ends on the 28th otherwise
C8_GridShape ==
    CalReturned =>
        LET dim == MonthLength(cal.year, cal.month)
            off == MondayIndex(cal.year, cal.month, 1)
            out == cal.out
        IN  /\ Len(out) * 7 >= dim + off
            /\ (Len(out) - 1) * 7 < dim + off
            /\ \A w \in 1..Len(out) : DOMAIN out[w] = 1..7
            /\ \A w \in 1..Len(out), c \in 1..7 :
                  LET k == 7 * (w - 1) + c - off
                  IN  IF k \in 1..dim
                      THEN /\ out[w][c].day = k
                           /\ c - 1 = MondayIndex(cal.year, cal.month, k)
                      ELSE out[w][c] = PaddingCell
            /\ cal.month = 2 =>
                  LET days == {out[x[1]][x[2]].day : x \in CalCells}
                  IN  /\ 29 \in days <=> LeapYear(cal.year)
                      /\ ~LeapYear(cal.year) => SetMax(days) = 28

\* the grid of February 2024: five weeks, the 29th a Thursday
C8_Witness ==
    /\ CalReturned
    /\ cal.year = 2024
    /\ cal.month = 2
    /\ Len(cal.out) = 5
    /\ cal.out[5][4].day = 29
    /\ cal.out[1][3] = PaddingCell

\* the labels the rows of day d give, in the order of the rows
LabelsOfDay(d) ==
    LET OnDay(lv) == lv.date = [year |-> cal.year, month |-> cal.month, day |-> d]
        rows      == SelectSeq(cal.lvs, OnDay)
    IN  [i \in 1..Len(rows) |->
            IF rows[i].half_day
            THEN rows[i].name \o <<32, 40, 72, 97, 108, 102, 41>>
            ELSE rows[i].name]

\* C9: the names of the cell of day d are the labels of the rows dated d of
\* that month, in the order of the rows, a label being the name followed by
\* " (Half)" exactly when the row is a half day; rows of another month give
\* no label in any cell
C9_CellLabels ==
    CalReturned =>
        /\ \A x \in CalCells :
              LET cell == cal.out[x[1]][x[2]]
              IN  cell.names = IF cell.day = 0 THEN <<>> ELSE LabelsOfDay(cell.day)
        /\ \A d \in 1..MonthLength(cal.year, cal.month) :
              \E x \in CalCells : cal.out[x[1]][x[2]].day = d

\* two rows of one employee on 2024-02-29, the half day first, and a row of
\* March: two labels in the order of the rows
C9_Witness ==
    /\ CalReturned
    /\ cal.year = 2024
    /\ cal.month = 2
    /\ Len(cal.lvs) >= 2
    /\ cal.lvs[1].name = cal.lvs[2].name
    /\ cal.lvs[1].date = Date(2024, 2, 29)
    /\ cal.lvs[2].date = Date(2024, 2, 29)
    /\ cal.lvs[1].half_day
    /\ ~cal.lvs[2].half_day
    /\ cal.out[5][4].names = <<cal.lvs[1].name \o HalfSuffix, cal.lvs[2].name>>
\* ------------------------------------------------------------------------
\* Properties of requests served at the same time
\* ------------------------------------------------------------------------

\* a call of get_color_for_employee by worker w returns in this step
LookupReturns(w) ==
    /\ tx[w].at \in {"render", "insert"}
    /\ tx'[w].at = "render"
    /\ Len(tx'[w].args) < Len(tx[w].args)

\* the requests of w and v overlap in time
Concurrent(w, v) == v \in tx[w].peers \/ w \in tx[v].peers

\* C4: under every interleaving of add, dashboard and delete the committed
\* store has at most one colour entry per name, an entry is never changed or
\* removed, and a lookup returns the colour the name already has, which is
\* the colour stored for it afterwards
C4_OneStableColour ==
    [][/\ \A e1, e2 \in employees' : e1.name = e2.name => e1 = e2
       /\ employees \subseteq employees'
       /\ \A w \in Workers :
            LookupReturns(w) =>
              \A g \in tx'[w].got :
                /\ \A e \in employees : e.name = g.name => e.color = g.color
                /\ \E e \in employees' : e.name = g.name /\ e.color = g.color]_vars

\* two dashboards at the same time looked up a name without an entry: one
\* stored a colour and returned it, the other's INSERT was refused
C4_Witness ==
    \E w, v \in Workers :
        /\ w # v
        /\ Concurrent(w, v)
        /\ tx[w].rq.op = "dashboard"
        /\ tx[v].rq.op = "dashboard"
        /\ tx[w].ret = "integrity_error"
        /\ \E e \in employees :
             /\ e.name = <<65>>
             /\ [name |-> e.name, color |-> e.color] \in tx[v].got

\* an add whose form names an employee and two dates
ValidAdd(r) ==
    r.op = "add" /\ Truthy(ResolveName(r.form)) /\ DatesParse(r.form)

\* two adds for one name whose ranges share a day
Overlapping(r, q) ==
    /\ ValidAdd(r)
    /\ ValidAdd(q)
    /\ ResolveName(r.form) = ResolveName(q.form)
    /\ ToOrdinal(StartOf(r.form)) <= ToOrdinal(EndOf(q.form))
    /\ ToOrdinal(StartOf(q.form)) <= ToOrdinal(EndOf(r.form))

\* the rows worker v has committed are one per day of its range, all stored
AllStored(v, rows) ==
    /\ tx[v].resp = RedirectTo("/dashboard")
    /\ tx[v].rows \subseteq rows
    /\ \A i \in 0..(Days(tx[v].rq.form) - 1) :
         \E l \in tx[v].rows : l.date = LeaveOfDay(tx[v].rq.form, i, 0).date

\* C10: when an add returns while an add for the same name and an overlapping
\* range is served at the same time, it succeeds and its records are stored,
\* and so are those of the other add if that has returned
C10_ConcurrentAddsSucceed ==
    [][\A w, v \in Workers :
         (/\ w # v
          /\ Returns(w, "add")
          /\ tx[w].auth
          /\ Concurrent(w, v)
          /\ Overlapping(tx[w].rq, tx[v].rq))
         => /\ tx'[w].resp = RedirectTo("/dashboard")
            /\ tx'[w].rows \subseteq leaves'
            /\ Cardinality(tx'[w].rows) = Days(tx[w].rq.form)
            /\ tx[v].at = "done" => AllStored(v, leaves')]_vars

====
